---------------------------- MODULE Spec2Model ----------------------------
(***************************************************************************)
(* Server-side streamline renderer (src/code/drawField.js).                *)
(*                                                                         *)
(* The module models                                                       *)
(*   - the job queue driver (processNextInQueue / processItem /            *)
(*     saveCanvas) together with the callbacks the external streamline     *)
(*     integrator makes into the job's closure (vectorField,               *)
(*     onStreamlineAdded), under the specification Spec;                   *)
(*   - the gradient mapper makeGradient as a pure function of an arbitrary *)
(*     stop table, under the specification SpecGradient.                   *)
(*                                                                         *)
(* JavaScript numbers are modelled exactly: a number is a rational, NaN,   *)
(* +Infinity or -Infinity, or (for the results of Math.sqrt) a value       *)
(* a + b*sqrt(q) with rational a, b, q.  Rounding error of IEEE doubles is *)
(* not modelled.                                                           *)
(***************************************************************************)
EXTENDS Integers, Sequences, FiniteSets, TLC

VARIABLES
    queue,      \* drawField.js:28   the pending items
    callPending,\* a call of processNextInQueue is due (line 30 or a .then of line 35)
    status,     \* per item: where its processItem promise chain stands
    saves,      \* per item: how many times saveCanvas has written its image
    lateDraw,   \* per item: a drawSegment ran after saveCanvas
    env,        \* per item: the closure of processItem (lines 54-77), NoEnv when not alive
    obs,        \* per item: what the last callback into the closure did
    gradient,   \* drawField.js:22   the closure returned by makeGradient
    gcall       \* the last direct call of the gradient function, NoCall if none

vars == <<queue, callPending, status, saves, lateDraw, env, obs, gradient, gcall>>

----------------------------------------------------------------------------
\* F applied to the value of v, with v evaluated once
Bind(v, F(_)) == CHOOSE r \in {F(x) : x \in {v}} : TRUE

----------------------------------------------------------------------------
(* Rational numbers with the IEEE special values.  d > 0: the rational     *)
(* n/d in lowest terms.  d = 0: NaN (n = 0), +Infinity (n = 1),            *)
(* -Infinity (n = -1).                                                     *)

Abs(i) == IF i < 0 THEN -i ELSE i

Sgn(i) == IF i < 0 THEN -1 ELSE IF i > 0 THEN 1 ELSE 0

RECURSIVE GCD(_, _)
GCD(a, b) == IF b = 0 THEN a ELSE GCD(b, a % b)

R(n, d) ==
    LET g == GCD(Abs(n), Abs(d))
    IN  [n |-> Sgn(d) * (n \div g), d |-> Abs(d) \div g]

I(i) == [n |-> i, d |-> 1]

Zero == I(0)

One == I(1)

NaN == [n |-> 0, d |-> 0]

Inf(s) == [n |-> s, d |-> 0]

IsNaN(a) == a.d = 0 /\ a.n = 0

IsInf(a) == a.d = 0 /\ a.n # 0

RNeg(a) == [n |-> -a.n, d |-> a.d]

RAdd(a, b) ==
    IF IsNaN(a) \/ IsNaN(b) THEN NaN
    ELSE IF IsInf(a) THEN (IF IsInf(b) /\ b.n # a.n THEN NaN ELSE a)
    ELSE IF IsInf(b) THEN b
    ELSE R(a.n * b.d + b.n * a.d, a.d * b.d)

RSub(a, b) == RAdd(a, RNeg(b))

RMul(a, b) ==
    IF IsNaN(a) \/ IsNaN(b) THEN NaN
    ELSE IF IsInf(a) \/ IsInf(b)
         THEN (IF a.n = 0 \/ b.n = 0 THEN NaN ELSE Inf(Sgn(a.n) * Sgn(b.n)))
    ELSE R(a.n * b.n, a.d * b.d)

RDiv(a, b) ==
    IF IsNaN(a) \/ IsNaN(b) THEN NaN
    ELSE IF IsInf(b) THEN (IF IsInf(a) THEN NaN ELSE Zero)
    ELSE IF b.n = 0 THEN (IF a.n = 0 THEN NaN ELSE Inf(Sgn(a.n)))
    ELSE IF IsInf(a) THEN Inf(Sgn(a.n) * Sgn(b.n))
    ELSE R(a.n * b.d, a.d * b.n)

\* a < b, false when either is NaN
RLt(a, b) ==
    /\ ~IsNaN(a)
    /\ ~IsNaN(b)
    /\ IF IsInf(a) \/ IsInf(b)
       THEN (IF IsInf(a) THEN a.n ELSE 0) < (IF IsInf(b) THEN b.n ELSE 0)
       ELSE a.n * b.d < b.n * a.d

\* a <= b, false when either is NaN
RLe(a, b) == ~IsNaN(a) /\ ~IsNaN(b) /\ ~RLt(b, a)

\* Math.floor and Math.ceil of a finite number
Floor(a) == a.n \div a.d

Ceil(a) == -((-a.n) \div a.d)

----------------------------------------------------------------------------
(* Numbers of the form a + b*sqrt(q), with a, b, q rational and q >= 0.    *)
(* NaN and the infinities are carried in a, with b = q = 0.                *)

S(r) == [a |-> r, b |-> Zero, q |-> Zero]

SN(a, b, q) == IF a.d = 0 \/ b.n = 0 \/ q.n = 0 THEN S(a) ELSE [a |-> a, b |-> b, q |-> q]

SIsNaN(x) == IsNaN(x.a)

SFinite(x) == x.a.d # 0

\* the sign of a finite a + b*sqrt(q)
SSign(x) ==
    LET sa == Sgn(x.a.n)
        sb == Sgn(x.b.n)
    IN  IF sb = 0 THEN sa
        ELSE IF sa = 0 \/ sa = sb THEN sb
        ELSE LET r  == RDiv(x.a, x.b)
                 r2 == RMul(r, r)
             IN  IF RLt(x.q, r2) THEN sa ELSE IF RLt(r2, x.q) THEN sb ELSE 0

SAdd(x, y) ==
    LET a == RAdd(x.a, y.a)
    IN  SN(a, RAdd(x.b, y.b), IF x.b.n # 0 THEN x.q ELSE y.q)

\* x * r for a finite rational r
SScale(x, r) == SN(RMul(x.a, r), RMul(x.b, r), x.q)

SSub(x, y) == SAdd(x, SScale(y, I(-1)))

\* x / r for a rational r
SDivR(x, r) ==
    IF ~SFinite(x) \/ r.d = 0 THEN S(RDiv(x.a, r))
    ELSE IF r.n = 0 THEN S(IF SSign(x) = 0 THEN NaN ELSE Inf(SSign(x)))
    ELSE SScale(x, RDiv(One, r))

\* Math.sqrt of a rational
SSqrt(r) ==
    IF IsNaN(r) \/ r.n < 0 THEN S(NaN)
    ELSE IF IsInf(r) THEN S(r)
    ELSE SN(Zero, One, r)

\* x / y for two results of Math.sqrt
SDiv(x, y) ==
    IF SIsNaN(x) \/ SIsNaN(y) THEN S(NaN)
    ELSE IF ~SFinite(y) THEN S(IF SFinite(x) THEN Zero ELSE NaN)
    ELSE IF ~SFinite(x) THEN S(IF SSign(y) < 0 THEN RNeg(x.a) ELSE x.a)
    ELSE IF SSign(y) = 0 THEN S(IF SSign(x) = 0 THEN NaN ELSE Inf(SSign(x)))
    ELSE IF SSign(x) = 0 THEN S(Zero)
    ELSE SN(Zero, RDiv(x.b, y.b), RDiv(x.q, y.q))

SLt(x, y) ==
    /\ ~SIsNaN(x)
    /\ ~SIsNaN(y)
    /\ IF SFinite(x) /\ SFinite(y) THEN SSign(SSub(x, y)) < 0 ELSE RLt(x.a, y.a)

SLe(x, y) == ~SIsNaN(x) /\ ~SIsNaN(y) /\ ~SLt(y, x)

\* Math.round(x) = floor(x + 1/2), for a finite x whose rounding lies in lo..hi
RECURSIVE RoundIn(_, _, _)
RoundIn(x, lo, hi) ==
    IF lo >= hi THEN lo
    ELSE Bind((lo + hi + 1) \div 2,
              LAMBDA mid : IF SLe(S(R(2 * mid - 1, 2)), x)
                           THEN RoundIn(x, mid, hi)
                           ELSE RoundIn(x, lo, mid - 1))

\* Math.round of a value in the range 0..255 of the colour channels
MathRound(x) == Bind(x, LAMBDA v : RoundIn(v, 0, 255))

----------------------------------------------------------------------------
(* makeGradient (drawField.js:204-237).  A stop table is a function on     *)
(* 0..n-1 (a JavaScript array) of records {stop, r, g, b}.                 *)

Throw == [kind |-> "throw"]

Color(s) == [r |-> s.r, g |-> s.g, b |-> s.b]

\* a variant of gradientMix that interpolates from the wrong end
gradientMixSwapped(a, b, t) ==
    [r |-> MathRound(SAdd(SScale(t, I(b.r)), SScale(SSub(S(One), t), I(a.r)))),
     g |-> MathRound(SAdd(SScale(t, I(b.g)), SScale(SSub(S(One), t), I(a.g)))),
     b |-> MathRound(SAdd(SScale(t, I(b.b)), SScale(SSub(S(One), t), I(a.b))))]

\* lines 230-236: linear interpolation between r, g and b components
gradientMix(a, b, t) ==
    [r |-> MathRound(SAdd(SScale(t, I(a.r)), SScale(SSub(S(One), t), I(b.r)))),
     g |-> MathRound(SAdd(SScale(t, I(a.g)), SScale(SSub(S(One), t), I(b.g)))),
     b |-> MathRound(SAdd(SScale(t, I(a.b)), SScale(SSub(S(One), t), I(b.b))))]

\* lines 214-224: the scan for the bracketing pair, from index i on
RECURSIVE gradientScan(_, _, _)
gradientScan(stops, t, i) ==
    IF i >= Cardinality(DOMAIN stops) THEN Throw
    ELSE LET from == stops[i - 1]
             to   == stops[i]
         IN  IF SLe(S(from.stop), t) /\ SLt(t, S(to.stop))
             THEN Bind(SDivR(SSub(t, S(from.stop)), RSub(to.stop, from.stop)),
                       LAMBDA dist : gradientMix(to, from, dist))
             ELSE gradientScan(stops, t, i + 1)

\* lines 207-227: the function makeGradient returns, applied to t
gradientGetColor(stops, t) ==
    Bind(t, LAMBDA tv :
        IF SLe(tv, S(Zero)) THEN Color(stops[0])
        ELSE IF SLe(S(One), tv) THEN Color(stops[Cardinality(DOMAIN stops) - 1])
        ELSE gradientScan(stops, tv, 1))

\* lines 204-205: makeGradient validates nothing and returns the closure
makeGradient(stops) == [constructed |-> TRUE, stops |-> stops]

\* lines 22-26: the stop table of the program
Stop(pos, r, g, b) == [stop |-> pos, r |-> r, g |-> g, b |-> b]

ProgramStops ==
    (0 :> Stop(Zero, 40, 40, 40)) @@
    (1 :> Stop(R(1, 2), 106, 168, 198)) @@
    (2 :> Stop(One, 226, 229, 170))


----------------------------------------------------------------------------
(* The closure of processItem (drawField.js:38-202).                       *)

Undefined == [kind |-> "undefined"]

\* line 41
canvasWidth == 1280

\* line 42
canvasHeight == 720

\* an out-of-range read of a JavaScript array gives undefined, which
\* arithmetic turns into NaN
ArrayAt(arr, k) == IF k \in DOMAIN arr THEN arr[k] ELSE NaN

\* lines 63-70: the normalized, phase-shifted grid (width is even)
Normalize(data, width, height) ==
    [idx \in 0 .. (2 * width * height - 1) |->
        LET cell == idx \div 2
            y    == cell \div width
            x    == cell % width
            k    == y * width + ((x + width \div 2) % width)
            f    == IF idx % 2 = 0 THEN data.u ELSE data.v
        IN  RDiv(RSub(ArrayAt(f.values, k), I(f.minimum)),
                 RSub(I(f.maximum), I(f.minimum)))]

\* lines 50-77: what processItem binds once the dataset is loaded
Closure(data) ==
    LET width  == data.u.Ni
        height == data.u.Nj - 1
    IN  [uMax        |-> I(data.u.maximum),
         uMin        |-> I(data.u.minimum),
         vMax        |-> I(data.v.maximum),
         vMin        |-> I(data.v.minimum),
         maxVelocity |-> SSqrt(I(data.u.maximum * data.u.maximum
                                 + data.v.maximum * data.v.maximum)),
         width       |-> width,
         height      |-> height,
         vfData      |-> Normalize(data, width, height)]

\* a variant of outside that lets the column x = width through
outsideOffByOne(c, x, y) == x < 0 \/ x > c.width \/ y < 0 \/ y >= c.height

\* lines 139-141
outside(c, x, y) == x < 0 \/ x >= c.width \/ y < 0 \/ y >= c.height

\* lines 128-136
getXY(c, x, y) ==
    IF outside(c, x, y) THEN Undefined
    ELSE LET idx == (x + y * c.width) * 2
         IN  [x |-> ArrayAt(c.vfData, idx), y |-> ArrayAt(c.vfData, idx + 1)]

\* lines 144-149
mix(a, b, ratio) ==
    Bind(<<a, b, ratio>>, LAMBDA m :
        [x |-> RAdd(RMul(m[1].x, m[3]), RMul(RSub(One, m[3]), m[2].x)),
         y |-> RAdd(RMul(m[1].y, m[3]), RMul(RSub(One, m[3]), m[2].y))])

\* lines 98-106: the cell indices after the boundary substitutions
CellOf(c, p) ==
    LET lx == IF Floor(p.x) < 0 THEN Ceil(p.x) ELSE Floor(p.x)
        ux == IF Ceil(p.x) >= c.width THEN lx ELSE Ceil(p.x)
        ly == IF Floor(p.y) < 0 THEN Ceil(p.y) ELSE Floor(p.y)
        uy == IF Ceil(p.y) > c.height THEN ly ELSE Ceil(p.y)
    IN  [lx |-> lx, ux |-> ux, ly |-> ly, uy |-> uy]

\* line 117: the two ratios handed to mix
RatioX(c, p) == RSub(p.x, I(CellOf(c, p).lx))

RatioY(c, p) == RAdd(RSub(One, p.y), I(CellOf(c, p).ly))

\* line 117: the interpolated normalized pair, given the four corners
Interpolate(c, p) ==
    Bind(CellOf(c, p), LAMBDA k :
        mix(mix(getXY(c, k.lx, k.ly), getXY(c, k.lx + 1, k.ly), RatioX(c, p)),
            mix(getXY(c, k.lx, k.ly + 1), getXY(c, k.lx + 1, k.ly + 1), RatioX(c, p)),
            RatioY(c, p)))

\* lines 96-125
vectorField(c, p) ==
    Bind(CellOf(c, p), LAMBDA k :
        IF outside(c, k.lx, k.ly) \/ outside(c, k.ux, k.uy) THEN Undefined
        ELSE IF \/ getXY(c, k.lx, k.ly) = Undefined
                \/ getXY(c, k.lx + 1, k.ly) = Undefined
                \/ getXY(c, k.lx, k.ly + 1) = Undefined
                \/ getXY(c, k.lx + 1, k.ly + 1) = Undefined
             THEN Undefined
        ELSE Bind(Interpolate(c, p), LAMBDA res :
                 [x |-> RNeg(RAdd(RMul(res.x, RSub(c.uMax, c.uMin)), c.uMin)),
                  y |-> RAdd(RMul(res.y, RSub(c.vMax, c.vMin)), c.vMin)]))

\* Math.round of a finite rational
RoundR(a) == Floor(RAdd(a, R(1, 2)))

\* lines 170-178 (boundingBox of lines 72-77: left 0, top 0, width, height)
transform(c, pt) ==
    LET tx == RDiv(RSub(pt.x, Zero), I(c.width))
        ty == RDiv(RSub(pt.y, Zero), I(c.height))
    IN  [x |-> RoundR(RMul(tx, I(canvasWidth))),
         y |-> RoundR(RMul(ty, I(canvasHeight)))]

\* a variant of getColor that paints undefined samples fully transparent
getColorTransparent(c, stops, x, y) ==
    Bind(vectorField(c, [x |-> x, y |-> y]), LAMBDA p :
        IF p = Undefined THEN [r |-> 0, g |-> 0, b |-> 0, a |-> S(Zero)]
        ELSE Bind(SDiv(SSqrt(RAdd(RMul(p.x, p.x), RMul(p.y, p.y))), c.maxVelocity),
                  LAMBDA gray :
             Bind(gradientGetColor(stops, gray), LAMBDA col :
                 IF col = Throw THEN Throw
                 ELSE [r |-> col.r, g |-> col.g, b |-> col.b,
                       a |-> SAdd(S(R(1, 10)), SScale(gray, R(9, 10)))])))

\* lines 180-188: the rgba(...) string as its four components, or Throw
\* when the gradient function throws
getColor(c, stops, x, y) ==
    Bind(vectorField(c, [x |-> x, y |-> y]), LAMBDA p :
        IF p = Undefined THEN [r |-> 0, g |-> 0, b |-> 0, a |-> S(One)]
        ELSE Bind(SDiv(SSqrt(RAdd(RMul(p.x, p.x), RMul(p.y, p.y))), c.maxVelocity),
                  LAMBDA gray :
             Bind(gradientGetColor(stops, gray), LAMBDA col :
                 IF col = Throw THEN Throw
                 ELSE [r |-> col.r, g |-> col.g, b |-> col.b,
                       a |-> SAdd(S(R(1, 10)), SScale(gray, R(9, 10)))])))

\* line 160: the midpoint of a segment
Midpoint(a, b) ==
    [x |-> RMul(RAdd(a.x, b.x), R(1, 2)), y |-> RMul(RAdd(a.y, b.y), R(1, 2))]

\* lines 157-167: the stroke drawSegment makes, or Throw
drawSegment(c, stops, a, b) ==
    Bind(Midpoint(a, b), LAMBDA m :
        Bind(getColor(c, stops, m.x, m.y), LAMBDA style :
            IF style = Throw THEN Throw
            ELSE [strokeStyle |-> style,
                  from |-> transform(c, a), to |-> transform(c, b)]))

\* lines 151-155: the strokes made for points[i-1], points[i], i = from .. Len-1
\* (points is 1-based here), stopping at the first segment that throws
RECURSIVE onStreamlineAddedFrom(_, _, _, _, _)
onStreamlineAddedFrom(c, stops, points, i, done) ==
    IF i >= Len(points) THEN [strokes |-> done, threw |-> FALSE]
    ELSE Bind(drawSegment(c, stops, points[i], points[i + 1]), LAMBDA s :
             IF s = Throw THEN [strokes |-> done, threw |-> TRUE]
             ELSE Bind(Append(done, s), LAMBDA d :
                      onStreamlineAddedFrom(c, stops, points, i + 1, d)))

onStreamlineAdded(c, stops, points) == onStreamlineAddedFrom(c, stops, points, 1, <<>>)

----------------------------------------------------------------------------
(* Bounds and inputs.                                                      *)

\* the longest initial queue
MaxJobs == 2

\* coordinates handed to the closure are multiples of 1/Den
Den == 2

\* the longest streamline handed to onStreamlineAdded
MaxPathLen == 2

Items == 1 .. MaxJobs

\* (minimum, maximum) of a component
Ranges == {<<0, 2>>, <<-3, 1>>, <<1, 1>>, <<0, 0>>}

\* (Ni, Nj) of a dataset; Ni is even, as the phase shift of line 66 needs
Dims == {<<4, 4>>, <<2, 3>>}

\* a component whose Ni*Nj source values run through minimum..maximum
Field(Ni, Nj, range, stride) ==
    [Ni      |-> Ni,
     Nj      |-> Nj,
     minimum |-> range[1],
     maximum |-> range[2],
     values  |-> [k \in 0 .. (Ni * Nj - 1) |->
                    I(range[1] + ((stride * k) % (range[2] - range[1] + 1)))]]

\* what require("./data/<item>") can return (line 50)
Datasets ==
    {[u |-> Field(d[1], d[2], ru, 1), v |-> Field(d[1], d[2], rv, 2)] :
        d \in Dims, ru \in Ranges, rv \in Ranges}

\* the points the integrator samples: out to two cells beyond every edge
SamplePoints(c) ==
    {[x |-> R(i, Den), y |-> R(j, Den)] :
        i \in (-2 * Den) .. ((c.width + 1) * Den),
        j \in (-2 * Den) .. ((c.height + 1) * Den)}

\* the points of streamlines: inside the bounding box of lines 72-77
PathPoints(c) ==
    {[x |-> x, y |-> y] :
        x \in {R(1, Den), One, I(c.width - 1)},
        y \in {R(1, Den), One, I(c.height - 1)}}

Paths(c) == UNION {[1 .. n -> PathPoints(c)] : n \in 0 .. MaxPathLen}

NoEnv == [kind |-> "none"]

NoObs == [kind |-> "none"]

NoCall == [kind |-> "none"]

----------------------------------------------------------------------------
(* The driver (drawField.js:28-36, 79-94, 190-201).                        *)
(* status[item]: "absent" (never queued), "queued", "running" (the         *)
(* integrator's run() promise is pending), "resolved" (run() fulfilled,    *)
(* the .then(saveCanvas) of line 94 is due), "saved", "failed".            *)

InFlight == {j \in Items : status[j] \in {"running", "resolved"}}

\* line 50 throws: the exception leaves processItem and processNextInQueue;
\* nothing is registered that would call processNextInQueue again
LoadThrows(item) ==
    /\ status' = [status EXCEPT ![item] = "failed"]
    /\ callPending' = FALSE
    /\ UNCHANGED <<env, obs>>

\* lines 38-94 with the dataset data: the closure is built and run() started
processItem(item, data) ==
    /\ status' = [status EXCEPT ![item] = "running"]
    /\ env' = [env EXCEPT ![item] = Closure(data)]
    /\ obs' = [obs EXCEPT ![item] = NoObs]

\* a variant of processNextInQueue that does not wait for the promise of
\* processItem: .then(processNextInQueue()) in place of .then(processNextInQueue)
processNextInQueueEager ==
    /\ callPending
    /\ UNCHANGED <<saves, lateDraw, gradient, gcall>>
    /\ IF queue = <<>>
       THEN /\ callPending' = FALSE
            /\ UNCHANGED <<queue, status, env, obs>>
       ELSE /\ queue' = Tail(queue)
            /\ \/ LoadThrows(Head(queue))
               \/ /\ \E data \in Datasets : processItem(Head(queue), data)
                  /\ callPending' = TRUE

\* lines 32-36
processNextInQueue ==
    /\ callPending
    /\ UNCHANGED <<saves, lateDraw, gradient, gcall>>
    /\ IF queue = <<>>
       THEN /\ callPending' = FALSE
            /\ UNCHANGED <<queue, status, env, obs>>
       ELSE /\ queue' = Tail(queue)
            /\ \/ LoadThrows(Head(queue))
               \/ /\ \E data \in Datasets : processItem(Head(queue), data)
                  /\ callPending' = FALSE

\* the integrator calls vectorField (line 83) while it runs; obs holds the
\* value returned to it
IntegratorSamples(item) ==
    /\ status[item] = "running"
    /\ obs[item] = NoObs
    /\ \E p \in SamplePoints(env[item]) :
          obs' = [obs EXCEPT ![item] =
                     [kind |-> "sample", p |-> p, v |-> vectorField(env[item], p)]]
    /\ UNCHANGED <<queue, callPending, status, saves, lateDraw, env, gradient, gcall>>

\* the integrator calls onStreamlineAdded (line 87) while it runs; an
\* exception of the callback ends the run without a call of saveCanvas
IntegratorAddsStreamline(item) ==
    /\ status[item] = "running"
    /\ obs[item] = NoObs
    /\ \E points \in Paths(env[item]) :
          \E r \in {onStreamlineAdded(env[item], gradient.stops, points)} :
              /\ obs' = [obs EXCEPT ![item] =
                            [kind |-> "path", points |-> points,
                             strokes |-> r.strokes, threw |-> r.threw]]
              /\ lateDraw' = [lateDraw EXCEPT ![item] =
                                 @ \/ (saves[item] > 0 /\ Len(points) > 1)]
              /\ status' = [status EXCEPT ![item] =
                               IF r.threw THEN "failed" ELSE @]
    /\ UNCHANGED <<queue, callPending, saves, env, gradient, gcall>>

\* a callback has returned and the integrator goes on
IntegratorContinues(item) ==
    /\ status[item] = "running"
    /\ obs[item] # NoObs
    /\ obs' = [obs EXCEPT ![item] = NoObs]
    /\ UNCHANGED <<queue, callPending, status, saves, lateDraw, env, gradient, gcall>>

\* the promise of run() is fulfilled (line 93)
IntegratorResolves(item) ==
    /\ status[item] = "running"
    /\ obs[item] = NoObs
    /\ status' = [status EXCEPT ![item] = "resolved"]
    /\ UNCHANGED <<queue, callPending, saves, lateDraw, env, obs, gradient, gcall>>

\* the promise of run() is rejected: neither saveCanvas (line 94) nor
\* processNextInQueue (line 35) is called
IntegratorRejects(item) ==
    /\ status[item] = "running"
    /\ obs[item] = NoObs
    /\ status' = [status EXCEPT ![item] = "failed"]
    /\ UNCHANGED <<queue, callPending, saves, lateDraw, env, obs, gradient, gcall>>

\* lines 190-201, called by the .then of line 94; when it returns, the
\* .then of line 35 calls processNextInQueue; when toBuffer or writeFileSync
\* throws, nothing does
saveCanvas(item) ==
    /\ status[item] = "resolved"
    /\ \/ /\ status' = [status EXCEPT ![item] = "saved"]
          /\ saves' = [saves EXCEPT ![item] = @ + 1]
          /\ callPending' = TRUE
          /\ env' = [env EXCEPT ![item] = NoEnv]
          /\ obs' = [obs EXCEPT ![item] = NoObs]
       \/ /\ status' = [status EXCEPT ![item] = "failed"]
          /\ UNCHANGED <<saves, callPending, env, obs>>
    /\ UNCHANGED <<queue, lateDraw, gradient, gcall>>

\* lines 22-30: the gradient is built, the queue holds the items to render
\* (one in the program as shipped, where it is [process.argv[2]]), and
\* processNextInQueue is called
Init ==
    /\ \E n \in 1 .. MaxJobs : queue = [i \in 1 .. n |-> i]
    /\ callPending = TRUE
    /\ status = [j \in Items |-> IF j <= Len(queue) THEN "queued" ELSE "absent"]
    /\ saves = [j \in Items |-> 0]
    /\ lateDraw = [j \in Items |-> FALSE]
    /\ env = [j \in Items |-> NoEnv]
    /\ obs = [j \in Items |-> NoObs]
    /\ gradient = makeGradient(ProgramStops)
    /\ gcall = NoCall

Next ==
    \/ processNextInQueue
    \/ \E item \in Items : IntegratorSamples(item)
    \/ \E item \in Items : IntegratorAddsStreamline(item)
    \/ \E item \in Items : IntegratorContinues(item)
    \/ \E item \in Items : IntegratorResolves(item)
    \/ \E item \in Items : IntegratorRejects(item)
    \/ \E item \in Items : saveCanvas(item)

Spec == Init /\ [][Next]_vars

----------------------------------------------------------------------------
(* The gradient mapper on its own: any stop table, any argument.           *)

\* the longest stop table
MaxStops == 3

\* stop positions and arguments are multiples of 1/GDen
GDen == 4

\* the colour the i-th stop of a table carries
StopColor(i) == Color(ProgramStops[i % 3])

StopTables ==
    UNION {{[i \in 0 .. (n - 1) |->
                Stop(R(pos[i], GDen), StopColor(i).r, StopColor(i).g, StopColor(i).b)] :
            pos \in [0 .. (n - 1) -> 0 .. GDen]} : n \in 2 .. MaxStops}

GradientArgs == {S(R(k, GDen)) : k \in -1 .. (GDen + 1)}

\* the function returned by makeGradient is called with t
GradientCall ==
    /\ \E t \in GradientArgs :
          gcall' = [kind |-> "call", t |-> t,
                    out |-> gradientGetColor(gradient.stops, t)]
    /\ UNCHANGED <<queue, callPending, status, saves, lateDraw, env, obs, gradient>>

InitGradient ==
    /\ queue = <<>>
    /\ callPending = FALSE
    /\ status = [j \in Items |-> "absent"]
    /\ saves = [j \in Items |-> 0]
    /\ lateDraw = [j \in Items |-> FALSE]
    /\ env = [j \in Items |-> NoEnv]
    /\ obs = [j \in Items |-> NoObs]
    /\ \E stops \in StopTables : gradient = makeGradient(stops)
    /\ gcall = NoCall

NextGradient == GradientCall

SpecGradient == InitGradient /\ [][NextGradient]_vars

----------------------------------------------------------------------------
(* Properties of the field sampler.                                        *)

Sampled(item) == status[item] = "running" /\ obs[item].kind = "sample"

Drawn(item) == status[item] \in {"running", "failed"} /\ obs[item].kind = "path"

IsInt(a) == a.d = 1

\* the normalized pair stored in vfData for the grid vertex (i, j)
Stored(c, i, j) == [x |-> c.vfData[(i + j * c.width) * 2],
                    y |-> c.vfData[(i + j * c.width) * 2 + 1]]

\* the denormalized value of a normalized pair n, with the x sign negated
Denormalized(c, n) ==
    [x |-> RNeg(RAdd(RMul(n.x, RSub(c.uMax, c.uMin)), c.uMin)),
     y |-> RAdd(RMul(n.y, RSub(c.vMax, c.vMin)), c.vMin)]

InteriorVertex(c, p) ==
    /\ IsInt(p.x) /\ 1 <= p.x.n /\ p.x.n <= c.width - 2
    /\ IsInt(p.y) /\ 1 <= p.y.n /\ p.y.n <= c.height - 2

NonDegenerate(c) == RLt(c.uMin, c.uMax) /\ RLt(c.vMin, c.vMax)

\* C1: sampling at an integer grid vertex strictly inside the domain returns
\* the denormalized value stored for that same vertex.
C1_VertexSample ==
    \A item \in Items :
        (Sampled(item) /\ InteriorVertex(env[item], obs[item].p))
            => obs[item].v = Denormalized(env[item],
                                 Stored(env[item], obs[item].p.x.n, obs[item].p.y.n))

InGrid(c, x, y) == 0 <= x /\ x < c.width /\ 0 <= y /\ y < c.height

AllCornersInGrid(c, k) ==
    /\ InGrid(c, k.lx, k.ly)
    /\ InGrid(c, k.lx + 1, k.ly)
    /\ InGrid(c, k.lx, k.ly + 1)
    /\ InGrid(c, k.lx + 1, k.ly + 1)

FarOutside(c, p) ==
    \/ RLe(p.x, I(-1))
    \/ RLe(I(c.width), p.x)
    \/ RLe(p.y, I(-1))
    \/ RLe(I(c.height), p.y)

\* C8: vectorField(p) is undefined exactly when, after the boundary
\* substitutions, one of the four corners (lx,ly), (lx+1,ly), (lx,ly+1),
\* (lx+1,ly+1) lies outside [0,width) x [0,height); in particular it is
\* undefined for every p one unit or more past an edge of the domain.
C8_UndefinedIffCornerOutside ==
    \A item \in Items :
        Sampled(item) =>
            /\ (obs[item].v = Undefined)
                   <=> ~AllCornersInGrid(env[item], CellOf(env[item], obs[item].p))
            /\ FarOutside(env[item], obs[item].p) => obs[item].v = Undefined

\* C8's case: a query whose cell (lx,ly), (ux,uy) is in the grid but whose
\* right or lower corner is not, and which is therefore undefined
C8_Witness ==
    \E item \in Items :
        /\ Sampled(item)
        /\ obs[item].v = Undefined
        /\ InGrid(env[item], CellOf(env[item], obs[item].p).lx,
                             CellOf(env[item], obs[item].p).ly)
        /\ InGrid(env[item], CellOf(env[item], obs[item].p).ux,
                             CellOf(env[item], obs[item].p).uy)
        /\ ~FarOutside(env[item], obs[item].p)

Between(a, lo, hi) == RLe(lo, a) /\ RLe(a, hi)

\* every corner value is at least lo.f and at most hi.f, for f = x and f = y
CornerValues(c, k) ==
    {getXY(c, k.lx, k.ly), getXY(c, k.lx + 1, k.ly),
     getXY(c, k.lx, k.ly + 1), getXY(c, k.lx + 1, k.ly + 1)}

InHull(c, p) ==
    /\ \E lo \in CornerValues(c, CellOf(c, p)), hi \in CornerValues(c, CellOf(c, p)) :
           Between(Interpolate(c, p).x, lo.x, hi.x)
    /\ \E lo \in CornerValues(c, CellOf(c, p)), hi \in CornerValues(c, CellOf(c, p)) :
           Between(Interpolate(c, p).y, lo.y, hi.y)

\* C9: wherever vectorField(p) returns a value, both ratios handed to mix lie
\* in [0, 1], and each interpolated normalized component lies between the
\* least and the greatest of the four corner values (stated for datasets with
\* maximum > minimum, whose normalized values are numbers).
C9_NeverExtrapolates ==
    \A item \in Items :
        (Sampled(item) /\ NonDegenerate(env[item]) /\ obs[item].v # Undefined)
            => /\ Between(RatioX(env[item], obs[item].p), Zero, One)
               /\ Between(RatioY(env[item], obs[item].p), Zero, One)
               /\ InHull(env[item], obs[item].p)

\* C10: when a component has maximum = minimum, every defined sample has
\* exactly minimum for that component (negated for x), and colouring a
\* segment raises no error.
C10_DegenerateRangeCollapses ==
    \A item \in Items :
        /\ (Sampled(item) /\ obs[item].v # Undefined)
              => /\ env[item].uMax = env[item].uMin => obs[item].v.x = RNeg(env[item].uMin)
                 /\ env[item].vMax = env[item].vMin => obs[item].v.y = env[item].vMin
        /\ (Drawn(item) /\ ~NonDegenerate(env[item])) => ~obs[item].threw

----------------------------------------------------------------------------
(* Properties of the segment rasterizer.                                   *)

MidpointUndefined(c, points, i) ==
    vectorField(c, Midpoint(points[i], points[i + 1])) = Undefined

Black(alpha) == [r |-> 0, g |-> 0, b |-> 0, a |-> S(alpha)]

\* C6 as claimed: a segment whose midpoint sample is undefined is stroked
\* once, without an error, in black with alpha 0.
C6_UndefinedIsTransparent ==
    \A item \in Items :
        Drawn(item) =>
            \A i \in 1 .. (Len(obs[item].points) - 1) :
                (MidpointUndefined(env[item], obs[item].points, i)
                 /\ Len(obs[item].strokes) >= i - 1)
                    => /\ Len(obs[item].strokes) >= i
                       /\ obs[item].strokes[i].strokeStyle = Black(Zero)

\* C6 as amended: a segment whose midpoint sample is undefined is stroked
\* once, without an error, in black with alpha 1 (opaque); the segments
\* before it are those that did not throw.
C6_UndefinedIsOpaqueBlack ==
    \A item \in Items :
        Drawn(item) =>
            \A i \in 1 .. (Len(obs[item].points) - 1) :
                (MidpointUndefined(env[item], obs[item].points, i)
                 /\ Len(obs[item].strokes) >= i - 1)
                    => /\ Len(obs[item].strokes) >= i
                       /\ obs[item].strokes[i].strokeStyle = Black(One)

C6_Witness ==
    \E item \in Items :
        /\ Drawn(item)
        /\ Len(obs[item].points) = 2
        /\ obs[item].points[1] # obs[item].points[2]
        /\ MidpointUndefined(env[item], obs[item].points, 1)
        /\ Len(obs[item].strokes) = 1
        /\ ~obs[item].threw

\* C7: a two-point path with both points inside the domain yields exactly one
\* stroke, whose alpha 0.1 + 0.9 * gray lies in [0.1, 1.0] (stated for
\* datasets with maximum > minimum; maximum = minimum is the case of C10).
C7_AlphaInRange ==
    \A item \in Items :
        (Drawn(item) /\ NonDegenerate(env[item]) /\ Len(obs[item].points) = 2)
            => /\ Len(obs[item].strokes) = 1
               /\ SLe(S(R(1, 10)), obs[item].strokes[1].strokeStyle.a)
               /\ SLe(obs[item].strokes[1].strokeStyle.a, S(One))

----------------------------------------------------------------------------
(* Properties of the driver.                                               *)

Started(j) == status[j] \in {"running", "resolved", "saved", "failed"}

C3_Serialized ==
    /\ Cardinality(InFlight) <= 1
    /\ \A i \in Items, j \in Items :
           (i < j /\ Started(j)) => (status[i] = "saved" /\ saves[i] = 1)
    /\ \A j \in Items : saves[j] = IF status[j] = "saved" THEN 1 ELSE 0
    /\ \A j \in Items : ~lateDraw[j]

\* C3's case: the second item is being rendered after the first was saved
C3_Witness ==
    \E i \in Items, j \in Items :
        /\ i < j
        /\ status[i] = "saved"
        /\ saves[i] = 1
        /\ status[j] = "running"
        /\ obs[j].kind = "path"
        /\ Len(obs[j].strokes) > 0

----------------------------------------------------------------------------
(* Properties of the gradient mapper (under SpecGradient).                 *)

Called == gcall.kind = "call"

NStops == Cardinality(DOMAIN gradient.stops)

WellFormed(stops) ==
    /\ stops[0].stop = Zero
    /\ stops[Cardinality(DOMAIN stops) - 1].stop = One
    /\ \A i \in 1 .. (Cardinality(DOMAIN stops) - 1) :
           RLe(stops[i - 1].stop, stops[i].stop)

EndsExact ==
    /\ gcall.out # Throw
    /\ SLe(gcall.t, S(Zero)) => gcall.out = Color(gradient.stops[0])
    /\ SLe(S(One), gcall.t) => gcall.out = Color(gradient.stops[NStops - 1])

C5_NoErrorAtRenderTime ==
    (Called /\ ~WellFormed(gradient.stops)) =>
        (~gradient.constructed \/ gcall.out # Throw)

=============================================================================
